---- MODULE Spec2Model ----
(* A model of turing_machine.py: the TuringMachine class, its generator     *)
(* run(), and the bounded queries accepts() and rejects() built on it.      *)
(*                                                                          *)
(* Python values are modelled as follows.  States, symbols and directions   *)
(* are strings.  The action None is the string "None"; the booleans that    *)
(* accepts()/rejects() return are the strings "True" and "False", so that   *)
(* they can share a variable with None.  A dict is a function whose DOMAIN  *)
(* is its key set.  The two tape lists are mutable objects: the variables   *)
(* left_hand_side and right_hand_side hold the present contents of the two  *)
(* list objects, and a configuration dict holds references to them.         *)
EXTENDS Integers, Sequences, FiniteSets, TLC

(***************************************************************************)
(* Bounds of the model.                                                    *)
(***************************************************************************)
\* longest input written on the tape
MaxLen == 2
\* largest step_limit handed to accepts()/rejects()
MaxLimit == 3
\* most next() calls a direct caller of run() makes
MaxPulls == 4

(***************************************************************************)
(* Machines.                                                               *)
(***************************************************************************)
\* __init__: the instance attributes.  states_to_actions is a dict literal
\* with the keys accept_state and reject_state in that order, so that the
\* reject entry wins when both states are the same.
TuringMachine(transitions, start_state, accept_state, reject_state, blank_symbol) ==
    [ blank_symbol      |-> blank_symbol,
      transitions       |-> transitions,
      start_state       |-> start_state,
      reject_state      |-> reject_state,
      states_to_actions |-> [ s \in {accept_state, reject_state} |->
                                 IF s = reject_state THEN "Reject" ELSE "Accept" ] ]

\* The default arguments of __init__.
DefaultMachine(transitions) == TuringMachine(transitions, "q0", "qa", "qr", "")

\* The machine of the module doctest.
one_hash ==
    DefaultMachine(
        ( <<"q0", "#">>    :> <<"saw_#", "#", "R">> ) @@
        ( <<"saw_#", "">>  :> <<"qa", "", "R">> ) )

\* The machine of test_go_left.
go_left == DefaultMachine( <<"q0", "">> :> <<"q0", "", "L">> )

\* The empty table: every pair is resolved by the default rule.
EmptyTable == [ k \in {} |-> <<"qr", "", "R">> ]

\* A table that has entries keyed on the accept and on the reject state.
halting_keys ==
    DefaultMachine(
        ( <<"q0", "1">> :> <<"qa", "1", "R">> ) @@
        ( <<"q0", "">>  :> <<"qr", "1", "L">> ) @@
        ( <<"qa", "">>  :> <<"q0", "1", "R">> ) @@
        ( <<"qa", "1">> :> <<"q0", "1", "L">> ) @@
        ( <<"qr", "">>  :> <<"q0", "1", "L">> ) @@
        ( <<"qr", "1">> :> <<"qa", "1", "R">> ) )

\* The start state is the accept state.
starts_accepting == TuringMachine(<<"qa", "">> :> <<"q0", "", "R">>, "qa", "qa", "qr", "")

\* The start state is the reject state, and a blank other than ''.
starts_rejecting == TuringMachine(EmptyTable, "qr", "qa", "qr", "1")

\* One state is configured as both the accept and the reject state.
accept_is_reject ==
    TuringMachine(<<"q0", "1">> :> <<"qx", "", "R">>, "q0", "qx", "qx", "")

\* Tables with a direction that is neither 'L' nor 'R'.  'X' fails the
\* assertion of run(); 'LR' is a substring of 'LR' and passes it.
bad_direction ==
    DefaultMachine(
        ( <<"q0", "">>  :> <<"q0", "1", "X">> ) @@
        ( <<"q0", "1">> :> <<"q0", "", "X">> ) )

bad_direction_LR == DefaultMachine( <<"q0", "">> :> <<"q0", "", "LR">> )

\* Every table over one working state and the symbols '' and '1'.
FamilyKeys == { <<"q0", "">>, <<"q0", "1">> }
FamilyValues == { <<q, s, d>> : q \in {"q0", "qa", "qr"}, s \in {"", "1"}, d \in {"L", "R"} }
FamilyTables == UNION { [K -> FamilyValues] : K \in SUBSET FamilyKeys }

Machines ==
    { DefaultMachine(t) : t \in FamilyTables }
    \cup { one_hash, go_left, halting_keys, starts_accepting, starts_rejecting,
           accept_is_reject, bad_direction, bad_direction_LR }

(***************************************************************************)
(* Inputs: a str (a sequence of characters) or a list of symbols.          *)
(***************************************************************************)
RECURSIVE SeqsUpTo(_, _)
SeqsUpTo(S, n) ==
    IF n = 0 THEN { <<>> }
    ELSE LET shorter == SeqsUpTo(S, n - 1)
         IN  shorter \cup { Append(s, x) : s \in shorter, x \in S }

Characters == {"1", "#"}
ListSymbols == {"", "1", "#"}

Inputs ==
    { [type |-> "str",  items |-> s] : s \in SeqsUpTo(Characters, MaxLen) }
    \cup { [type |-> "list", items |-> s] : s \in SeqsUpTo(ListSymbols, MaxLen) }

(***************************************************************************)
(* The pieces of run().                                                    *)
(***************************************************************************)
\* Seed without the blank cell on the left of the input.
Seed_NoBlankOnLeft(m, inp) ==
    LET items == IF Len(inp.items) = 0 THEN << m.blank_symbol >> ELSE inp.items
    IN  [ state           |-> m.start_state,
          left_hand_side  |-> << >>,
          symbol          |-> Head(items),
          right_hand_side |-> Tail(items) ]

\* run, the seeding of the tape: an input that is falsy ('' or []) is
\* replaced by [blank_symbol]; the first element becomes the current symbol
\* and list(input_[1:]) the right hand side.
Seed(m, inp) ==
    LET items == IF Len(inp.items) = 0 THEN << m.blank_symbol >> ELSE inp.items
    IN  [ state           |-> m.start_state,
          left_hand_side  |-> << m.blank_symbol >>,
          symbol          |-> Head(items),
          right_hand_side |-> Tail(items) ]

\* self.states_to_actions.get(state)
ActionOf(m, st) ==
    IF st \in DOMAIN m.states_to_actions THEN m.states_to_actions[st] ELSE "None"

\* Transition with a default rule that stays in the present state.
Transition_DefaultStay(m, st, sy) ==
    IF <<st, sy>> \in DOMAIN m.transitions
    THEN m.transitions[<<st, sy>>]
    ELSE << st, sy, "R" >>

\* Transition with a default rule that moves left.
Transition_DefaultLeft(m, st, sy) ==
    IF <<st, sy>> \in DOMAIN m.transitions
    THEN m.transitions[<<st, sy>>]
    ELSE << m.reject_state, sy, "L" >>

\* self.transitions.get((state, symbol), (self.reject_state, symbol, 'R'))
Transition(m, st, sy) ==
    IF <<st, sy>> \in DOMAIN m.transitions
    THEN m.transitions[<<st, sy>>]
    ELSE << m.reject_state, sy, "R" >>

\* InLR that takes 'R' only.
InLR_OnlyR(d) == d = "R"

\* direction in 'LR' is a substring test on the str 'LR'.
InLR(d) == d \in {"", "L", "R", "LR"}

\* Move that, on a left move, leaves a blank instead of the written symbol.
Move_LeftDropsWrite(m, lhs, sy, rhs, d) ==
    IF d = "R"
    THEN [ left_hand_side  |-> << sy >> \o lhs,
           symbol          |-> IF rhs # << >> THEN Head(rhs) ELSE m.blank_symbol,
           right_hand_side |-> IF rhs # << >> THEN Tail(rhs) ELSE << >>,
           raised          |-> FALSE ]
    ELSE IF lhs # << >>
    THEN [ left_hand_side  |-> Tail(lhs),
           symbol          |-> Head(lhs),
           right_hand_side |-> << m.blank_symbol >> \o rhs,
           raised          |-> FALSE ]
    ELSE [ left_hand_side  |-> lhs,
           symbol          |-> sy,
           right_hand_side |-> rhs,
           raised          |-> ~ InLR(d) ]

\* Move that, on a right move, reads the front of the right hand side
\* without popping it.
Move_KeepsRight(m, lhs, sy, rhs, d) ==
    IF d = "R"
    THEN [ left_hand_side  |-> << sy >> \o lhs,
           symbol          |-> IF rhs # << >> THEN Head(rhs) ELSE m.blank_symbol,
           right_hand_side |-> rhs,
           raised          |-> FALSE ]
    ELSE IF lhs # << >>
    THEN [ left_hand_side  |-> Tail(lhs),
           symbol          |-> Head(lhs),
           right_hand_side |-> << sy >> \o rhs,
           raised          |-> FALSE ]
    ELSE [ left_hand_side  |-> lhs,
           symbol          |-> sy,
           right_hand_side |-> rhs,
           raised          |-> ~ InLR(d) ]

\* Move that pushes the written symbol onto the right hand side even when
\* the head is on the leftmost cell.
Move_PushAtOrigin(m, lhs, sy, rhs, d) ==
    IF d = "R"
    THEN [ left_hand_side  |-> << sy >> \o lhs,
           symbol          |-> IF rhs # << >> THEN Head(rhs) ELSE m.blank_symbol,
           right_hand_side |-> IF rhs # << >> THEN Tail(rhs) ELSE << >>,
           raised          |-> FALSE ]
    ELSE [ left_hand_side  |-> IF lhs # << >> THEN Tail(lhs) ELSE << >>,
           symbol          |-> IF lhs # << >> THEN Head(lhs) ELSE m.blank_symbol,
           right_hand_side |-> << sy >> \o rhs,
           raised          |-> FALSE ]

\* Move that reads a blank on the leftmost cell instead of staying put.
Move_BlankAtOrigin(m, lhs, sy, rhs, d) ==
    IF d = "R"
    THEN [ left_hand_side  |-> << sy >> \o lhs,
           symbol          |-> IF rhs # << >> THEN Head(rhs) ELSE m.blank_symbol,
           right_hand_side |-> IF rhs # << >> THEN Tail(rhs) ELSE << >>,
           raised          |-> FALSE ]
    ELSE IF lhs # << >>
    THEN [ left_hand_side  |-> Tail(lhs),
           symbol          |-> Head(lhs),
           right_hand_side |-> << sy >> \o rhs,
           raised          |-> FALSE ]
    ELSE [ left_hand_side  |-> lhs,
           symbol          |-> m.blank_symbol,
           right_hand_side |-> rhs,
           raised          |-> ~ InLR(d) ]

\* The move of the head once state, symbol and direction are rebound to the
\* transition: sy is the symbol of the transition (the one written).
Move(m, lhs, sy, rhs, d) ==
    IF d = "R"
    THEN [ left_hand_side  |-> << sy >> \o lhs,
           symbol          |-> IF rhs # << >> THEN Head(rhs) ELSE m.blank_symbol,
           right_hand_side |-> IF rhs # << >> THEN Tail(rhs) ELSE << >>,
           raised          |-> FALSE ]
    ELSE IF lhs # << >>
    THEN [ left_hand_side  |-> Tail(lhs),
           symbol          |-> Head(lhs),
           right_hand_side |-> << sy >> \o rhs,
           raised          |-> FALSE ]
    ELSE [ left_hand_side  |-> lhs,
           symbol          |-> sy,
           right_hand_side |-> rhs,
           raised          |-> ~ InLR(d) ]

\* Breaks that leaves the loop on Reject only.
Breaks_OnReject(a) == a = "Reject"

\* Breaks that leaves the loop on Accept only.
Breaks_OnAccept(a) == a = "Accept"

\* if action is not None: break
Breaks(a) == a # "None"

\* One pass of the loop body after the yield: the transition is looked up,
\* state, symbol and direction are rebound, and the head is moved.
Step(m, c) ==
    LET t  == Transition(m, c.state, c.symbol)
        mv == Move(m, c.left_hand_side, t[2], c.right_hand_side, t[3])
    IN  [ state           |-> t[1],
          left_hand_side  |-> mv.left_hand_side,
          symbol          |-> mv.symbol,
          right_hand_side |-> mv.right_hand_side,
          raised          |-> mv.raised ]

\* The tuple of the yield expression, with the lists by value.
Yield(m, c) ==
    [ action          |-> ActionOf(m, c.state),
      state           |-> c.state,
      left_hand_side  |-> c.left_hand_side,
      symbol          |-> c.symbol,
      right_hand_side |-> c.right_hand_side ]

\* The first n tuples run yields from the configuration c on: the loop of
\* run, unrolled.  The sequence ends with a halting tuple or with the
\* tuple before a failed assertion.
RECURSIVE RunFrom(_, _, _)
RunFrom(m, c, n) ==
    IF n = 0 THEN << >>
    ELSE IF Breaks(ActionOf(m, c.state)) THEN << Yield(m, c) >>
    ELSE LET c2 == Step(m, c)
         IN  IF c2.raised THEN << Yield(m, c) >>
             ELSE << Yield(m, c) >> \o RunFrom(m, c2, n - 1)

\* list(islice(self.run(input_), n)), the lists by value at each yield.
Run(m, inp, n) == RunFrom(m, Seed(m, inp), n)

(***************************************************************************)
(* The pieces of accepts() and rejects().                                  *)
(***************************************************************************)
\* AcceptsResult that collapses None into False.
AcceptsResult_Collapsed(a) == IF a = "Accept" THEN "True" ELSE "False"

\* accepts, after the list is indexed: action == 'Accept' when the action
\* is not None, and the implicit None otherwise.
AcceptsResult(a) ==
    IF a # "None"
    THEN (IF a = "Accept" THEN "True" ELSE "False")
    ELSE "None"

\* RejectsResult that negates whatever accepts returned.
RejectsResult_Negated(acc) == IF acc = "True" THEN "False" ELSE "True"

\* rejects: not accepts when accepts is not None, the implicit None otherwise.
RejectsResult(acc) ==
    IF acc # "None"
    THEN (IF acc = "True" THEN "False" ELSE "True")
    ELSE "None"

(***************************************************************************)
(* State.                                                                  *)
(***************************************************************************)
VARIABLES
    machine,          \* the TuringMachine instance
    input_,           \* the argument of run/accepts/rejects
    caller,           \* who consumes the generator: "next", "accepts", "rejects"
    step_limit,       \* the step_limit of the query
    gpc,              \* the generator: "created", "suspended", "finished", "raised"
    state,            \* local of run
    symbol,           \* local of run
    left_hand_side,   \* contents of the list object bound to left_hand_side
    right_hand_side,  \* contents of the list object bound to right_hand_side
    action,           \* local of run
    yielded,          \* the (action, configuration) tuples the caller received
    lookups,          \* history: the transitions run has applied
    stops,            \* StopIteration raised to a direct caller
    cpc,              \* the query: "islice", "rejects", "returned", "raised"
    accepts_result,   \* what accepts returned
    rejects_result,   \* what rejects returned
    error,            \* the exception that ended the generator or the query
    other,            \* a second generator of the same machine, or NoRun
    colored,          \* the colored argument of debug
    out               \* the lines debug has printed

vars == << machine, input_, caller, step_limit, gpc, state, symbol,
           left_hand_side, right_hand_side, action, yielded, lookups, stops,
           cpc, accepts_result, rejects_result, error, other, colored, out >>

Unbound == "<unbound>"
Pending == "<pending>"
NoError == "<none>"

\* The frame of a generator that run() has created and nobody has resumed.
Created(inp) ==
    [ input_          |-> inp,
      gpc             |-> "created",
      state           |-> Unbound,
      left_hand_side  |-> << >>,
      symbol          |-> Unbound,
      right_hand_side |-> << >>,
      action          |-> Unbound,
      yielded         |-> << >>,
      stops           |-> 0 ]

\* No second generator exists.
NoRun == [ Created([type |-> "list", items |-> << >>]) EXCEPT !.gpc = "absent" ]

\* The caller-independent part of the initial state: run() has been called
\* and nothing has been pulled, returned or printed.
Fresh ==
    /\ gpc = "created"
    /\ state = Unbound
    /\ symbol = Unbound
    /\ left_hand_side = << >>
    /\ right_hand_side = << >>
    /\ action = Unbound
    /\ yielded = << >>
    /\ lookups = << >>
    /\ stops = 0
    /\ accepts_result = Pending
    /\ rejects_result = Pending
    /\ error = NoError
    /\ out = << >>

Init ==
    /\ machine \in Machines
    /\ input_ \in Inputs
    /\ caller \in {"next", "accepts", "rejects"}
    /\ step_limit \in (IF caller = "next" THEN {0} ELSE 0 .. MaxLimit)
    /\ gpc = "created"
    /\ state = Unbound
    /\ symbol = Unbound
    /\ left_hand_side = << >>
    /\ right_hand_side = << >>
    /\ action = Unbound
    /\ yielded = << >>
    /\ lookups = << >>
    /\ stops = 0
    /\ cpc = (IF caller = "next" THEN "next" ELSE "islice")
    /\ accepts_result = Pending
    /\ rejects_result = Pending
    /\ error = NoError
    /\ other = NoRun
    /\ colored = FALSE
    /\ out = << >>

(***************************************************************************)
(* The generator.                                                          *)
(***************************************************************************)
\* The tuple of the yield expression.  The dict holds the str objects of
\* state and symbol and references to the two list objects; at_yield is
\* history: the contents of the two lists at the moment of the yield.
Observation(a, st, lhs, sy, rhs) ==
    [ action        |-> a,
      configuration |-> [ state           |-> st,
                          left_hand_side  |-> "left_hand_side",
                          symbol          |-> sy,
                          right_hand_side |-> "right_hand_side" ],
      at_yield      |-> [ left_hand_side |-> lhs, right_hand_side |-> rhs ] ]

\* Resume that, on the first next(), already applies the first transition
\* after it has built the first tuple.
Resume_Eager ==
    \/ /\ gpc = "created"
       /\ LET s  == Seed(machine, input_)
              a  == ActionOf(machine, s.state)
              c2 == Step(machine, s)
              eager == ~ Breaks(a) /\ ~ c2.raised
          IN  /\ state' = (IF eager THEN c2.state ELSE s.state)
              /\ symbol' = (IF eager THEN c2.symbol ELSE s.symbol)
              /\ left_hand_side' =
                     (IF eager THEN c2.left_hand_side ELSE s.left_hand_side)
              /\ right_hand_side' =
                     (IF eager THEN c2.right_hand_side ELSE s.right_hand_side)
              /\ action' = a
              /\ yielded' = Append(yielded,
                    Observation(a, s.state, s.left_hand_side, s.symbol, s.right_hand_side))
              /\ lookups' =
                     (IF eager
                      THEN Append(lookups,
                               [ state           |-> s.state,
                                 symbol          |-> s.symbol,
                                 found           |-> <<s.state, s.symbol>> \in
                                                         DOMAIN machine.transitions,
                                 to              |-> Transition(machine, s.state, s.symbol),
                                 left_hand_side  |-> s.left_hand_side,
                                 right_hand_side |-> s.right_hand_side ])
                      ELSE lookups)
       /\ gpc' = "suspended"
       /\ UNCHANGED error
    \/ /\ gpc = "suspended"
       /\ gpc' = "finished"
       /\ UNCHANGED << state, symbol, left_hand_side, right_hand_side, action,
                       yielded, lookups, error >>

\* One resumption of the generator by next(): from its creation or from
\* the yield it is suspended at, up to the next yield, its return or an
\* exception.
Resume ==
    \/ /\ gpc = "created"
       /\ LET s == Seed(machine, input_)
              a == ActionOf(machine, s.state)
          IN  /\ state' = s.state
              /\ symbol' = s.symbol
              /\ left_hand_side' = s.left_hand_side
              /\ right_hand_side' = s.right_hand_side
              /\ action' = a
              /\ yielded' = Append(yielded,
                    Observation(a, s.state, s.left_hand_side, s.symbol, s.right_hand_side))
       /\ gpc' = "suspended"
       /\ UNCHANGED << lookups, error >>
    \/ /\ gpc = "suspended"
       /\ Breaks(action)
       /\ gpc' = "finished"
       /\ UNCHANGED << state, symbol, left_hand_side, right_hand_side, action,
                       yielded, lookups, error >>
    \/ /\ gpc = "suspended"
       /\ ~ Breaks(action)
       /\ LET c  == [ state |-> state, left_hand_side |-> left_hand_side,
                      symbol |-> symbol, right_hand_side |-> right_hand_side ]
              c2 == Step(machine, c)
              a  == ActionOf(machine, c2.state)
          IN  /\ lookups' = Append(lookups,
                    [ state           |-> state,
                      symbol          |-> symbol,
                      found           |-> <<state, symbol>> \in DOMAIN machine.transitions,
                      to              |-> Transition(machine, state, symbol),
                      left_hand_side  |-> left_hand_side,
                      right_hand_side |-> right_hand_side ])
              /\ state' = c2.state
              /\ symbol' = c2.symbol
              /\ left_hand_side' = c2.left_hand_side
              /\ right_hand_side' = c2.right_hand_side
              /\ IF c2.raised
                 THEN /\ gpc' = "raised"
                      /\ error' = "AssertionError"
                      /\ UNCHANGED << action, yielded >>
                 ELSE /\ gpc' = "suspended"
                      /\ action' = a
                      /\ yielded' = Append(yielded,
                            Observation(a, c2.state, c2.left_hand_side, c2.symbol,
                                        c2.right_hand_side))
                      /\ UNCHANGED error

\* next(execution) on a generator that has returned or raised.
StopIteration ==
    /\ gpc \in {"finished", "raised"}
    /\ UNCHANGED << gpc, state, symbol, left_hand_side, right_hand_side, action,
                    yielded, lookups, error >>

(***************************************************************************)
(* A direct caller of run(): execution = machine.run(input_), then any     *)
(* number of next(execution).                                              *)
(***************************************************************************)
NextCall ==
    /\ caller = "next"
    /\ Len(yielded) + stops < MaxPulls
    /\ \/ Resume /\ stops' = (IF gpc' = "finished" THEN stops + 1 ELSE stops)
       \/ StopIteration /\ stops' = stops + 1
    /\ UNCHANGED << machine, input_, caller, step_limit, cpc, accepts_result,
                    rejects_result, other, colored, out >>

(***************************************************************************)
(* accepts(input_, step_limit) and rejects(input_, step_limit=...).        *)
(***************************************************************************)
\* islice(self.run(input_), step_limit) asks the generator for one more item
\* while it has handed out fewer than step_limit items.
IsliceNext ==
    /\ caller \in {"accepts", "rejects"}
    /\ cpc = "islice"
    /\ gpc \in {"created", "suspended"}
    /\ Len(yielded) < step_limit
    /\ Resume
    /\ cpc' = (IF gpc' = "raised" THEN "raised" ELSE cpc)
    /\ UNCHANGED << machine, input_, caller, step_limit, stops, accepts_result,
                    rejects_result, other, colored, out >>

\* list(...)[-1][0] once islice is exhausted, and the return of accepts.
AcceptsReturn ==
    /\ caller \in {"accepts", "rejects"}
    /\ cpc = "islice"
    /\ \/ gpc = "finished"
       \/ Len(yielded) >= step_limit
    /\ IF yielded = << >>
       THEN /\ error' = "IndexError"
            /\ cpc' = "raised"
            /\ UNCHANGED accepts_result
       ELSE /\ accepts_result' = AcceptsResult(yielded[Len(yielded)].action)
            /\ cpc' = (IF caller = "rejects" THEN "rejects" ELSE "returned")
            /\ UNCHANGED error
    /\ UNCHANGED << machine, input_, caller, step_limit, gpc, state, symbol,
                    left_hand_side, right_hand_side, action, yielded, lookups,
                    stops, rejects_result, other, colored, out >>

\* rejects, after its call of accepts has returned.
RejectsReturn ==
    /\ caller = "rejects"
    /\ cpc = "rejects"
    /\ rejects_result' = RejectsResult(accepts_result)
    /\ cpc' = "returned"
    /\ UNCHANGED << machine, input_, caller, step_limit, gpc, state, symbol,
                    left_hand_side, right_hand_side, action, yielded, lookups,
                    stops, accepts_result, error, other, colored, out >>

Next == NextCall \/ IsliceNext \/ AcceptsReturn \/ RejectsReturn

Spec == Init /\ [][Next]_vars

TypeOK ==
    /\ gpc \in {"created", "suspended", "finished", "raised"}
    /\ cpc \in {"next", "islice", "rejects", "returned", "raised"}
    /\ accepts_result \in {Pending, "True", "False", "None"}
    /\ rejects_result \in {Pending, "True", "False", "None"}
    /\ error \in {NoError, "AssertionError", "IndexError"}
    /\ stops \in 0 .. MaxPulls

(***************************************************************************)
(* The machine of w_hash_w.py and of the transitions fixture of the tests,  *)
(* and the calls that use the default step_limit.                          *)
(***************************************************************************)
\* longest input handed to the w#w machine
MaxWLen == 5

\* step_limit=100 of accepts, and through it of rejects
DefaultStepLimit == 100

w_hash_w_transitions ==
    ( <<"q0", "#">>             :> <<"End", "#", "R">> ) @@
    ( <<"End", "">>             :> <<"qa", "", "R">> ) @@
    ( <<"q0", "0">>             :> <<"FindDelimiter0", "X", "R">> ) @@
    ( <<"FindDelimiter0", "#">> :> <<"Check0", "#", "R">> ) @@
    ( <<"Check0", "0">>         :> <<"FindLeftmost", "X", "L">> ) @@
    ( <<"q0", "1">>             :> <<"FindDelimiter1", "X", "R">> ) @@
    ( <<"FindDelimiter1", "#">> :> <<"Check1", "#", "R">> ) @@
    ( <<"Check1", "1">>         :> <<"FindLeftmost", "X", "L">> ) @@
    ( <<"FindLeftmost", "0">>   :> <<"FindLeftmost", "0", "L">> ) @@
    ( <<"FindLeftmost", "1">>   :> <<"FindLeftmost", "1", "L">> ) @@
    ( <<"FindLeftmost", "X">>   :> <<"FindLeftmost", "X", "L">> ) @@
    ( <<"FindLeftmost", "#">>   :> <<"FindLeftmost", "#", "L">> ) @@
    ( <<"FindLeftmost", "">>    :> <<"FindNext", "", "R">> ) @@
    ( <<"FindNext", "X">>       :> <<"FindNext", "X", "R">> ) @@
    ( <<"FindNext", "0">>       :> <<"FindDelimiter0", "X", "R">> ) @@
    ( <<"FindNext", "1">>       :> <<"FindDelimiter1", "X", "R">> ) @@
    ( <<"FindNext", "#">>       :> <<"End", "#", "R">> ) @@
    ( <<"FindDelimiter0", "0">> :> <<"FindDelimiter0", "0", "R">> ) @@
    ( <<"FindDelimiter0", "1">> :> <<"FindDelimiter0", "1", "R">> ) @@
    ( <<"FindDelimiter1", "0">> :> <<"FindDelimiter1", "0", "R">> ) @@
    ( <<"FindDelimiter1", "1">> :> <<"FindDelimiter1", "1", "R">> ) @@
    ( <<"Check0", "X">>         :> <<"Check0", "X", "R">> ) @@
    ( <<"Check1", "X">>         :> <<"Check1", "X", "R">> ) @@
    ( <<"End", "X">>            :> <<"End", "X", "R">> )

\* The w#w table with a Check1 that also takes a '0'.
w_hash_w_LaxCheck1 ==
    DefaultMachine(
        ( <<"Check1", "0">> :> <<"FindLeftmost", "X", "L">> ) @@ w_hash_w_transitions )

w_hash_w == DefaultMachine(w_hash_w_transitions)

WCharacters == {"0", "1", "#"}

\* '11110011001010#11110011001010' of test_accepts
LongW == << "1", "1", "1", "1", "0", "0", "1", "1", "0", "0", "1", "0", "1", "0" >>
LongInput == [type |-> "str", items |-> LongW \o << "#" >> \o LongW]

\* '1000#10001' of test_rejects
UnequalInput ==
    [type |-> "str", items |-> << "1", "0", "0", "0", "#", "1", "0", "0", "0", "1" >>]

WInputs ==
    { [type |-> "str", items |-> w] : w \in SeqsUpTo(WCharacters, MaxWLen) }
    \cup { UnequalInput }

\* '', [] and [blank], the inputs of test_empy_input
EmptyInputs(m) ==
    { [type |-> "str", items |-> << >>],
      [type |-> "list", items |-> << >>],
      [type |-> "list", items |-> << m.blank_symbol >>] }

\* accepts and rejects called without a step_limit, and the two calls of
\* test_accepts.
InitDefault ==
    /\ caller \in {"accepts", "rejects"}
    /\ \/ /\ machine = w_hash_w
          /\ input_ \in WInputs
          /\ step_limit = DefaultStepLimit
       \/ /\ machine = w_hash_w
          /\ input_ = LongInput
          /\ step_limit \in {2, 1000}
       \/ /\ machine \in Machines \cup {w_hash_w}
          /\ input_ \in EmptyInputs(machine)
          /\ step_limit = DefaultStepLimit
    /\ cpc = "islice"
    /\ Fresh
    /\ other = NoRun
    /\ colored = FALSE

SpecDefault == (Init \/ InitDefault) /\ [][Next]_vars

(***************************************************************************)
(* Two generators of one machine, each with a direct caller of its own.    *)
(***************************************************************************)
\* One next() on the generator frame g of machine m: the frame afterwards.
\* Its lists are the objects that this call of run() created, its yielded
\* tuples are kept by value.
GenResume(m, g) ==
    IF g.gpc = "created"
    THEN LET s == Seed(m, g.input_)
         IN  [ g EXCEPT !.gpc = "suspended",
                        !.state = s.state,
                        !.left_hand_side = s.left_hand_side,
                        !.symbol = s.symbol,
                        !.right_hand_side = s.right_hand_side,
                        !.action = ActionOf(m, s.state),
                        !.yielded = Append(@, Yield(m, s)) ]
    ELSE IF g.gpc = "suspended" /\ Breaks(g.action)
    THEN [ g EXCEPT !.gpc = "finished", !.stops = @ + 1 ]
    ELSE IF g.gpc = "suspended"
    THEN LET c2 == Step(m, g)
         IN  IF c2.raised
             THEN [ g EXCEPT !.gpc = "raised",
                             !.state = c2.state,
                             !.symbol = c2.symbol ]
             ELSE [ g EXCEPT !.state = c2.state,
                             !.left_hand_side = c2.left_hand_side,
                             !.symbol = c2.symbol,
                             !.right_hand_side = c2.right_hand_side,
                             !.action = ActionOf(m, c2.state),
                             !.yielded = Append(@, Yield(m, c2)) ]
    ELSE [ g EXCEPT !.stops = @ + 1 ]

\* The second generator with its tape kept in one place for all runs of the
\* machine: it works on the lists of the first generator.
OtherNextCall_SharedTape ==
    /\ other.gpc # "absent"
    /\ Len(other.yielded) + other.stops < MaxPulls
    /\ LET g  == IF other.gpc = "suspended" /\ gpc = "suspended"
                 THEN [ other EXCEPT !.left_hand_side = left_hand_side,
                                     !.right_hand_side = right_hand_side ]
                 ELSE other
           g2 == GenResume(machine, g)
       IN  /\ other' = g2
           /\ left_hand_side' = (IF gpc = "suspended" THEN g2.left_hand_side
                                 ELSE left_hand_side)
           /\ right_hand_side' = (IF gpc = "suspended" THEN g2.right_hand_side
                                  ELSE right_hand_side)
    /\ UNCHANGED << machine, input_, caller, step_limit, gpc, state, symbol,
                    action, yielded, lookups, stops, cpc, accepts_result,
                    rejects_result, error, colored, out >>

\* The second generator with the current state kept in one place for all
\* runs of the machine: it resumes from the state of the first generator.
OtherNextCall_SharedState ==
    /\ other.gpc # "absent"
    /\ Len(other.yielded) + other.stops < MaxPulls
    /\ LET g == IF other.gpc = "suspended" /\ gpc = "suspended" /\ ~ Breaks(other.action)
                THEN [ other EXCEPT !.state = state ]
                ELSE other
       IN  other' = GenResume(machine, g)
    /\ UNCHANGED << machine, input_, caller, step_limit, gpc, state, symbol,
                    left_hand_side, right_hand_side, action, yielded, lookups,
                    stops, cpc, accepts_result, rejects_result, error, colored,
                    out >>

\* next() of the caller of the second generator.
OtherNextCall ==
    /\ other.gpc # "absent"
    /\ Len(other.yielded) + other.stops < MaxPulls
    /\ other' = GenResume(machine, other)
    /\ UNCHANGED << machine, input_, caller, step_limit, gpc, state, symbol,
                    left_hand_side, right_hand_side, action, yielded, lookups,
                    stops, cpc, accepts_result, rejects_result, error, colored,
                    out >>

\* The inputs of the second run: the input of the first run, or another.
OtherInputs(inp) ==
    { inp,
      [type |-> "str", items |-> << >>],
      [type |-> "list", items |-> << "1" >>],
      [type |-> "list", items |-> << "1", "#" >>] }

\* execution = machine.run(input_) twice on one machine.
InitRuns ==
    /\ machine \in Machines
    /\ input_ \in Inputs
    /\ caller = "next"
    /\ step_limit = 0
    /\ cpc = "next"
    /\ Fresh
    /\ other \in { Created(inp) : inp \in OtherInputs(input_) }
    /\ colored = FALSE

NextRuns == Next \/ OtherNextCall

SpecRuns == (Init \/ InitRuns) /\ [][NextRuns]_vars

(***************************************************************************)
(* debug(input_, step_limit, colored): the trace printed line by line.     *)
(***************************************************************************)
\* reversed(seq)
RECURSIVE Reverse(_)
Reverse(seq) ==
    IF seq = << >> THEN << >> ELSE Append(Reverse(Tail(seq)), Head(seq))

\* ''.join(seq)
RECURSIVE Join(_)
Join(seq) == IF seq = << >> THEN "" ELSE Head(seq) \o Join(Tail(seq))

RECURSIVE Spaces(_)
Spaces(n) == IF n <= 0 THEN "" ELSE " " \o Spaces(n - 1)

\* '{:<30}': the text, padded on its right with spaces to 30 columns.
LeftAligned30(text) == text \o Spaces(30 - Len(text))

\* The begin and end markers of the head cell.  The escape character of
\* '\x1b[47;1m' and '\x1b[0m' is written as the four characters \x1b.
BeginMarker(c) == IF c THEN "\\x1b[47;1m" ELSE "["
EndMarker(c) == IF c THEN "\\x1b[0m" ELSE "]"

\* FormatLine that joins left_hand_side without reversing it.
FormatLine_NotReversed(st, lhs, sy, rhs, c) ==
    LeftAligned30(st) \o " " \o Join(lhs) \o BeginMarker(c) \o sy
        \o EndMarker(c) \o Join(rhs)

\* '{state:<30} {left}{b}{symbol}{f}{right}'.format(...)
FormatLine(st, lhs, sy, rhs, c) ==
    LeftAligned30(st) \o " " \o Join(Reverse(lhs)) \o BeginMarker(c) \o sy
        \o EndMarker(c) \o Join(rhs)

\* One pass of the for loop of debug: islice pulls a tuple and its
\* configuration is printed, the two lists read through the references of
\* the dict at that moment.
DebugNext ==
    /\ caller = "debug"
    /\ cpc = "islice"
    /\ gpc \in {"created", "suspended"}
    /\ Len(yielded) < step_limit
    /\ Resume
    /\ cpc' = (IF gpc' = "raised" THEN "raised" ELSE cpc)
    /\ out' = (IF Len(yielded') > Len(yielded)
               THEN LET configuration == yielded'[Len(yielded')].configuration
                    IN  Append(out,
                            FormatLine(configuration.state, left_hand_side',
                                       configuration.symbol, right_hand_side',
                                       colored))
               ELSE out)
    /\ UNCHANGED << machine, input_, caller, step_limit, stops, accepts_result,
                    rejects_result, other, colored >>

\* The for loop of debug is over: islice is exhausted.
DebugReturn ==
    /\ caller = "debug"
    /\ cpc = "islice"
    /\ \/ gpc = "finished"
       \/ Len(yielded) >= step_limit
    /\ cpc' = "returned"
    /\ UNCHANGED << machine, input_, caller, step_limit, gpc, state, symbol,
                    left_hand_side, right_hand_side, action, yielded, lookups,
                    stops, accepts_result, rejects_result, error, other, colored,
                    out >>

\* '101X101' of test_debug and '10#10' of w_hash_w.py
DebugInput101X101 ==
    [type |-> "str", items |-> << "1", "0", "1", "X", "1", "0", "1" >>]
DebugInput10Hash10 == [type |-> "str", items |-> << "1", "0", "#", "1", "0" >>]

\* debug called on a fresh run: every machine and input of the model with a
\* small step_limit, and the calls of test_debug and of w_hash_w.py.
InitDebug ==
    /\ caller = "debug"
    /\ \/ /\ machine \in Machines
          /\ input_ \in Inputs
          /\ step_limit \in 0 .. MaxLimit
          /\ colored \in BOOLEAN
       \/ /\ machine = w_hash_w
          /\ input_ = DebugInput101X101
          /\ step_limit = DefaultStepLimit
          /\ colored \in BOOLEAN
       \/ /\ machine = w_hash_w
          /\ input_ = DebugInput10Hash10
          /\ step_limit = DefaultStepLimit
          /\ colored = FALSE
    /\ cpc = "islice"
    /\ Fresh
    /\ other = NoRun

NextDebug == DebugNext \/ DebugReturn

SpecDebug == InitDebug /\ [][NextDebug]_vars

(***************************************************************************)
(* What the caller holds.                                                  *)
(***************************************************************************)
\* The object a reference of a configuration dict points to, as it is now.
Deref(ref) == IF ref = "left_hand_side" THEN left_hand_side ELSE right_hand_side

\* The i-th tuple the caller received, as it read at the moment of its yield.
Delivered(i) ==
    [ action          |-> yielded[i].action,
      state           |-> yielded[i].configuration.state,
      left_hand_side  |-> yielded[i].at_yield.left_hand_side,
      symbol          |-> yielded[i].configuration.symbol,
      right_hand_side |-> yielded[i].at_yield.right_hand_side ]

DeliveredSeq == [ i \in 1 .. Len(yielded) |-> Delivered(i) ]

IsQuery == caller \in {"accepts", "rejects"}
AcceptsReturned == IsQuery /\ accepts_result # Pending
RejectsReturned == caller = "rejects" /\ cpc = "returned"
Halting == {"Accept", "Reject"}

(***************************************************************************)
(* Properties.                                                             *)
(***************************************************************************)

\* C1: for step_limit >= 1, accepts pulls the first min(step_limit, length of
\* the run) observations, and its result is decided by the action of the last
\* one pulled: True for Accept, False for Reject, None for a Continue action,
\* which is exactly when none of the first step_limit observations halts.
Theorem_C1 ==
    (AcceptsReturned /\ step_limit >= 1) =>
        LET n    == Len(yielded)
            last == yielded[n].action
        IN  /\ n >= 1
            /\ DeliveredSeq = Run(machine, input_, step_limit)
            /\ \/ n = step_limit
               \/ n < step_limit /\ last \in Halting
            /\ \A i \in 1 .. n - 1 : yielded[i].action = "None"
            /\ last = "Accept" => accepts_result = "True"
            /\ last = "Reject" => accepts_result = "False"
            /\ last = "None" => accepts_result = "None"
            /\ accepts_result = "None" <=>
                   \A i \in 1 .. n : yielded[i].action \notin Halting

\* accepts returned None after it pulled step_limit observations.
Witness_C1 ==
    /\ AcceptsReturned
    /\ step_limit >= 2
    /\ Len(yielded) = step_limit
    /\ accepts_result = "None"

\* C2: rejects is True iff its accepts is False, False iff its accepts is
\* True, None iff its accepts is None; the two are never both True.
Theorem_C2 ==
    RejectsReturned =>
        /\ rejects_result = "True" <=> accepts_result = "False"
        /\ rejects_result = "False" <=> accepts_result = "True"
        /\ rejects_result = "None" <=> accepts_result = "None"
        /\ ~ (rejects_result = "True" /\ accepts_result = "True")

\* rejects returned None because the step limit was reached.
Witness_C2 ==
    /\ RejectsReturned
    /\ rejects_result = "None"
    /\ step_limit >= 1

\* C3: after an observation with action Accept or Reject the run produces no
\* further observation and applies no further transition; every observation
\* but the last has action Continue; no transition is looked up from a
\* halting state.
Theorem_C3 ==
    /\ [] /\ \A i \in 1 .. Len(yielded) - 1 : yielded[i].action = "None"
          /\ \A i \in 1 .. Len(lookups) : ActionOf(machine, lookups[i].state) = "None"
          /\ gpc = "finished" =>
                 /\ yielded # << >>
                 /\ yielded[Len(yielded)].action \in Halting
    /\ [][ (yielded # << >> /\ yielded[Len(yielded)].action \in Halting) =>
               /\ yielded' = yielded
               /\ lookups' = lookups
               /\ << state, symbol, left_hand_side, right_hand_side >>' =
                      << state, symbol, left_hand_side, right_hand_side >>
               /\ gpc' \in {"suspended", "finished"} ]_vars

\* A halted run was asked twice more for an observation.
Witness_C3 ==
    /\ gpc = "finished"
    /\ stops >= 2
    /\ yielded[Len(yielded)].action = "Reject"
    /\ Len(yielded) >= 2

\* C4: a step from a Continue state on a pair without a table entry leaves
\* the head cell as it is, moves the head one cell to the right and enters
\* reject_state; the next observation has action Reject and is the last of
\* the run, and no error is raised.
Theorem_C4 ==
    \A i \in 1 .. Len(lookups) :
        ~ lookups[i].found =>
            LET l == lookups[i]
            IN  /\ gpc # "raised"
                /\ error = NoError
                /\ Len(yielded) = i + 1
                /\ Delivered(i + 1).action = "Reject"
                /\ Delivered(i + 1).state = machine.reject_state
                /\ Delivered(i + 1).left_hand_side = << l.symbol >> \o l.left_hand_side
                /\ Delivered(i + 1).symbol =
                       (IF l.right_hand_side # << >> THEN Head(l.right_hand_side)
                        ELSE machine.blank_symbol)
                /\ Delivered(i + 1).right_hand_side =
                       (IF l.right_hand_side # << >> THEN Tail(l.right_hand_side)
                        ELSE << >>)

\* A run that took a table transition first and the default rule second has
\* ended.
Witness_C4 ==
    /\ Len(lookups) = 2
    /\ lookups[1].found
    /\ ~ lookups[2].found
    /\ gpc = "finished"

\* C5: the configuration of an observation the caller holds reads the same
\* after later observations were pulled as it did when it was delivered.
Claim_C5 ==
    \A n \in 1 .. Len(yielded) :
        /\ Deref(yielded[n].configuration.left_hand_side)
               = yielded[n].at_yield.left_hand_side
        /\ Deref(yielded[n].configuration.right_hand_side)
               = yielded[n].at_yield.right_hand_side
\* A transition with direction 'L' that was applied with the head on the
\* leftmost cell.
LeftAtOrigin(l) == l.to[3] = "L" /\ l.left_hand_side = << >>

\* C6 as stated: a Left transition applied while left is empty leaves left
\* empty, right unchanged and the symbol under the head unchanged; only the
\* state becomes next_state; no error is raised and the run goes on.
Claim_C6 ==
    \A i \in 1 .. Len(lookups) :
        LeftAtOrigin(lookups[i]) =>
            LET l == lookups[i]
            IN  /\ gpc # "raised"
                /\ error = NoError
                /\ Len(yielded) >= i + 1
                /\ Delivered(i + 1).state = l.to[1]
                /\ Delivered(i + 1).left_hand_side = << >>
                /\ Delivered(i + 1).right_hand_side = l.right_hand_side
                /\ Delivered(i + 1).symbol = l.symbol

\* C6: a Left transition applied while left is empty leaves left empty and
\* right unchanged, the head does not move, the cell under the head holds
\* the symbol of the transition (next_symbol) and the state becomes
\* next_state; no error is raised and the run goes on with the next
\* observation.
Theorem_C6 ==
    \A i \in 1 .. Len(lookups) :
        LeftAtOrigin(lookups[i]) =>
            LET l == lookups[i]
            IN  /\ gpc # "raised"
                /\ error = NoError
                /\ Len(yielded) >= i + 1
                /\ Delivered(i + 1).state = l.to[1]
                /\ Delivered(i + 1).left_hand_side = << >>
                /\ Delivered(i + 1).right_hand_side = l.right_hand_side
                /\ Delivered(i + 1).symbol = l.to[2]

\* A Left transition that writes another symbol and enters another state
\* was applied on the leftmost cell.
Witness_C6 ==
    \E i \in 1 .. Len(lookups) :
        /\ LeftAtOrigin(lookups[i])
        /\ lookups[i].to[2] # lookups[i].symbol
        /\ lookups[i].to[1] # lookups[i].state
        /\ Len(yielded) = i + 1

\* C7: the machine of test_go_left on an empty input yields first
\* (None, q0, [blank], blank, []) and then (None, q0, [], blank, [blank])
\* at every later step; the run does not halt and left stays empty.
Theorem_C7 ==
    (machine = go_left /\ Len(input_.items) = 0) =>
        /\ gpc \in {"created", "suspended"}
        /\ \A i \in 1 .. Len(yielded) :
               Delivered(i) =
                   IF i = 1
                   THEN [ action |-> "None", state |-> "q0",
                          left_hand_side |-> << "" >>, symbol |-> "",
                          right_hand_side |-> << >> ]
                   ELSE [ action |-> "None", state |-> "q0",
                          left_hand_side |-> << >>, symbol |-> "",
                          right_hand_side |-> << "" >> ]
        /\ Len(yielded) >= 2 => left_hand_side = << >>

\* The direct caller of test_go_left has received its fourth observation.
Witness_C7 ==
    /\ machine = go_left
    /\ input_ = [type |-> "str", items |-> << >>]
    /\ caller = "next"
    /\ Len(yielded) >= 4

Claim_C9 ==
    IsQuery =>
        /\ cpc # "raised"
        /\ error = NoError
        /\ cpc = "returned" =>
               /\ accepts_result \in {"True", "False", "None"}
               /\ caller = "rejects" => rejects_result \in {"True", "False", "None"}

\* C10: no run of a constructed machine applies a transition whose
\* direction is neither 'L' nor 'R', and no run finds such a direction in
\* the middle of the execution.
Claim_C10 ==
    /\ \A i \in 1 .. Len(lookups) : lookups[i].to[3] \in {"L", "R"}
    /\ error # "AssertionError"

\* The items of a str of the form w#w with w over {0, 1}.
IsWHashW(items) ==
    \E k \in 0 .. Len(items) :
        /\ Len(items) = 2 * k + 1
        /\ items[k + 1] = "#"
        /\ \A i \in 1 .. k : items[i] \in {"0", "1"} /\ items[i] = items[k + 1 + i]

OverWCharacters(items) == \A i \in 1 .. Len(items) : items[i] \in WCharacters

\* C11: on a str over {0, 1, #} the w#w machine halts within the step limits
\* of the tests, and accepts returns True iff the str has the form w#w and
\* False otherwise (rejects the opposite); with step_limit=2 the long input
\* of test_accepts gives None.
Theorem_C11 ==
    (machine = w_hash_w /\ OverWCharacters(input_.items)) =>
        /\ cpc # "raised"
        /\ (AcceptsReturned /\ step_limit >= DefaultStepLimit) =>
               /\ accepts_result = (IF IsWHashW(input_.items) THEN "True" ELSE "False")
               /\ yielded[Len(yielded)].action =
                      (IF IsWHashW(input_.items) THEN "Accept" ELSE "Reject")
               /\ Len(yielded) < step_limit
        /\ (RejectsReturned /\ step_limit >= DefaultStepLimit) =>
               rejects_result = (IF IsWHashW(input_.items) THEN "False" ELSE "True")
        /\ (AcceptsReturned /\ step_limit = 2 /\ input_ = LongInput) =>
               accepts_result = "None"

\* accepts has returned True for the long input of test_accepts.
Witness_C11 ==
    /\ machine = w_hash_w
    /\ input_ = LongInput
    /\ caller = "accepts"
    /\ cpc = "returned"
    /\ accepts_result = "True"

\* C12: when the start state is not halting and the table has no entry for
\* (start_state, blank), rejects returns True on '', [] and [blank] for the
\* default step_limit and for every step_limit >= 2: the second observation
\* is Reject and is the last.
Theorem_C12 ==
    ( /\ caller = "rejects"
      /\ step_limit >= 2
      /\ ActionOf(machine, machine.start_state) = "None"
      /\ << machine.start_state, machine.blank_symbol >> \notin DOMAIN machine.transitions
      /\ input_ \in EmptyInputs(machine) ) =>
        /\ cpc # "raised"
        /\ Len(yielded) <= 2
        /\ Len(yielded) = 2 => yielded[2].action = "Reject"
        /\ cpc = "returned" =>
               /\ rejects_result = "True"
               /\ Len(yielded) = 2

\* rejects('') has returned with the default step_limit.
Witness_C12 ==
    /\ caller = "rejects"
    /\ cpc = "returned"
    /\ step_limit = DefaultStepLimit
    /\ input_ = [type |-> "str", items |-> << >>]
    /\ machine = DefaultMachine(<<"q0", "1">> :> <<"q0", "1", "L">>)
    /\ rejects_result = "True"

\* C13: whatever the interleaving of the pulls of two runs of one machine,
\* each run yields the tuples it yields alone, and no step changes the
\* machine (its table, its states, its blank symbol).
Theorem_C13 ==
    /\ [] /\ DeliveredSeq = Run(machine, input_, Len(yielded))
          /\ gpc \in {"finished", "raised"} =>
                 Len(Run(machine, input_, Len(yielded) + 1)) = Len(yielded)
          /\ other.gpc # "absent" =>
                 /\ other.yielded = Run(machine, other.input_, Len(other.yielded))
                 /\ other.gpc \in {"finished", "raised"} =>
                        Len(Run(machine, other.input_, Len(other.yielded) + 1))
                            = Len(other.yielded)
    /\ [][machine' = machine]_vars

\* Two runs on different inputs have each delivered three tuples and their
\* tapes differ.
Witness_C13 ==
    /\ other.gpc = "suspended"
    /\ gpc = "suspended"
    /\ other.input_ # input_
    /\ Len(yielded) >= 3
    /\ Len(other.yielded) >= 3
    /\ other.left_hand_side # left_hand_side
    /\ other.state # state

\* The shorter of two numbers.
Min(a, b) == IF a <= b THEN a ELSE b

\* C14: two runs on the same input yield the same tuples at every index and
\* end at the same length; accepts and rejects return what a second
\* evaluation of the run on the same arguments gives.
Theorem_C14 ==
    /\ (other.gpc # "absent" /\ other.input_ = input_) =>
           /\ \A i \in 1 .. Min(Len(yielded), Len(other.yielded)) :
                  Delivered(i) = other.yielded[i]
           /\ gpc \in {"finished", "raised"} => Len(other.yielded) <= Len(yielded)
           /\ other.gpc \in {"finished", "raised"} => Len(yielded) <= Len(other.yielded)
           /\ (gpc = "finished" /\ Len(other.yielded) = Len(yielded)) =>
                  other.gpc \in {"suspended", "finished"}
    /\ (AcceptsReturned /\ step_limit >= 1) =>
           LET again == Run(machine, input_, step_limit)
               acc   == AcceptsResult(again[Len(again)].action)
           IN  /\ accepts_result = acc
               /\ RejectsReturned => rejects_result = RejectsResult(acc)

\* Two runs on the same input, one ahead of the other.
Witness_C14 ==
    /\ other.gpc = "suspended"
    /\ other.input_ = input_
    /\ Len(other.yielded) >= 3
    /\ Len(yielded) = Len(other.yielded) + 1
    /\ state # other.state

\* C15: a transition is applied only when the caller asks for the next
\* observation: before the first pull nothing has run, after k >= 1
\* observations exactly k - 1 transitions have been applied, the i-th of
\* them from the configuration of the i-th observation; a step that is not
\* a pull leaves the run where it is.
Theorem_C15 ==
    /\ [] /\ gpc = "created" =>
                 /\ yielded = << >>
                 /\ lookups = << >>
                 /\ state = Unbound
          /\ gpc \in {"suspended", "finished"} =>
                 /\ Len(yielded) >= 1
                 /\ Len(lookups) = Len(yielded) - 1
          /\ gpc = "raised" => Len(lookups) = Len(yielded)
          /\ \A i \in 1 .. Len(lookups) :
                 /\ i <= Len(yielded)
                 /\ lookups[i].state = Delivered(i).state
                 /\ lookups[i].symbol = Delivered(i).symbol
                 /\ lookups[i].left_hand_side = Delivered(i).left_hand_side
                 /\ lookups[i].right_hand_side = Delivered(i).right_hand_side
    /\ [][ /\ Len(lookups') <= Len(lookups) + 1
           /\ Len(yielded') <= Len(yielded) + 1
           /\ (yielded' = yielded /\ gpc' = gpc) =>
                  << state, symbol, left_hand_side, right_hand_side, lookups >>' =
                      << state, symbol, left_hand_side, right_hand_side, lookups >>
         ]_vars

\* A query has returned and left its run suspended in a Continue state
\* after three observations and two transitions.
Witness_C15 ==
    /\ AcceptsReturned
    /\ cpc = "returned"
    /\ gpc = "suspended"
    /\ action = "None"
    /\ Len(yielded) = 3
    /\ Len(lookups) = 2

\* The line the trace shows for a tuple as it was delivered: the state
\* in 30 columns, a space, the cells left of the head from the leftmost one
\* on, the head cell between the markers, the cells right of the head.
ShownLine(o, c) ==
    LeftAligned30(o.state) \o " "
        \o Join([ i \in 1 .. Len(o.left_hand_side) |->
                    o.left_hand_side[Len(o.left_hand_side) + 1 - i] ])
        \o (IF c THEN "\\x1b[47;1m" ELSE "[") \o o.symbol
        \o (IF c THEN "\\x1b[0m" ELSE "]")
        \o Join(o.right_hand_side)

\* The output test_debug expects in plain mode.
ExpectedTestDebug ==
    << "q0                             [1]01X101",
       "FindDelimiter1                 X[0]1X101",
       "FindDelimiter1                 X0[1]X101",
       "FindDelimiter1                 X01[X]101",
       "qr                             X01X[1]01" >>

\* The output test_scrip_w_hash_w expects.
ExpectedWHashWScript ==
    << "q0                             [1]0#10",
       "FindDelimiter1                 X[0]#10",
       "FindDelimiter1                 X0[#]10",
       "Check1                         X0#[1]0",
       "FindLeftmost                   X0[#]X0",
       "FindLeftmost                   X[0]#X0",
       "FindLeftmost                   [X]0#X0",
       "FindLeftmost                   []X0#X0",
       "FindNext                       [X]0#X0",
       "FindNext                       X[0]#X0",
       "FindDelimiter0                 XX[#]X0",
       "Check0                         XX#[X]0",
       "Check0                         XX#X[0]",
       "FindLeftmost                   XX#[X]X",
       "FindLeftmost                   XX[#]XX",
       "FindLeftmost                   X[X]#XX",
       "FindLeftmost                   [X]X#XX",
       "FindLeftmost                   []XX#XX",
       "FindNext                       [X]X#XX",
       "FindNext                       X[X]#XX",
       "FindNext                       XX[#]XX",
       "End                            XX#[X]X",
       "End                            XX#X[X]",
       "End                            XX#XX[]",
       "qa                             XX#XX[]" >>

\* C16: debug prints one line per observation pulled, in order, so
\* min(step_limit, length of the run) lines when it returns, the halting
\* observation included as the last; each line is the state followed by
\* reverse(left), begin marker, symbol, end marker, right.
Theorem_C16 ==
    caller = "debug" =>
        /\ Len(out) = Len(yielded)
        /\ \A i \in 1 .. Len(out) : out[i] = ShownLine(Delivered(i), colored)
        /\ cpc = "returned" =>
               /\ Len(out) = Len(Run(machine, input_, step_limit))
               /\ \/ Len(out) = step_limit
                  \/ Len(out) < step_limit /\ yielded[Len(yielded)].action \in Halting
               /\ (machine = w_hash_w /\ input_ = DebugInput10Hash10) =>
                      out = ExpectedWHashWScript
               /\ (machine = w_hash_w /\ input_ = DebugInput101X101 /\ ~ colored) =>
                      out = ExpectedTestDebug

\* The debug call of w_hash_w.py has printed its 25 lines and returned.
Witness_C16 ==
    /\ caller = "debug"
    /\ cpc = "returned"
    /\ machine = w_hash_w
    /\ input_ = DebugInput10Hash10
    /\ Len(out) = 25
    /\ yielded[25].action = "Accept"

\* C17: a Right transition pushes next_symbol onto the front of left and
\* pops the front of right as the new symbol, or takes the blank when right
\* is empty; a Left transition with non-empty left pushes next_symbol onto
\* the front of right and pops the front of left; the state becomes
\* next_state.
Theorem_C17 ==
    \A i \in 1 .. Len(lookups) :
        LET l == lookups[i]
            t == l.to
        IN  /\ t[3] = "R" =>
                   /\ Len(yielded) >= i + 1
                   /\ Delivered(i + 1).state = t[1]
                   /\ Delivered(i + 1).left_hand_side = << t[2] >> \o l.left_hand_side
                   /\ l.right_hand_side # << >> =>
                          /\ Delivered(i + 1).symbol = Head(l.right_hand_side)
                          /\ Delivered(i + 1).right_hand_side = Tail(l.right_hand_side)
                   /\ l.right_hand_side = << >> =>
                          /\ Delivered(i + 1).symbol = machine.blank_symbol
                          /\ Delivered(i + 1).right_hand_side = << >>
            /\ (t[3] = "L" /\ l.left_hand_side # << >>) =>
                   /\ Len(yielded) >= i + 1
                   /\ Delivered(i + 1).state = t[1]
                   /\ Delivered(i + 1).right_hand_side = << t[2] >> \o l.right_hand_side
                   /\ Delivered(i + 1).symbol = Head(l.left_hand_side)
                   /\ Delivered(i + 1).left_hand_side = Tail(l.left_hand_side)

\* A run has moved right off the end of its input, writing another symbol,
\* and then left again, writing another symbol.
Witness_C17 ==
    \E i \in 1 .. Len(lookups) - 1 :
        /\ lookups[i].found
        /\ lookups[i].to[3] = "R"
        /\ lookups[i].right_hand_side = << >>
        /\ lookups[i].to[2] # lookups[i].symbol
        /\ lookups[i + 1].to[3] = "L"
        /\ lookups[i + 1].to[2] # lookups[i + 1].symbol
        /\ Len(yielded) = i + 2

\* The whole tape of a delivered tuple, from the leftmost cell on.
FullTape(o) == Reverse(o.left_hand_side) \o << o.symbol >> \o o.right_hand_side

\* C18: from one observation to the next the whole tape
\* reverse(left) + [symbol] + right changes at most in the cell that was
\* under the head, which then holds the written symbol, and grows by at
\* most one blank at its right end; the head position len(left) changes by
\* at most one and stays at or right of the leftmost cell.
Theorem_C18 ==
    \A i \in 1 .. Len(yielded) - 1 :
        LET before == FullTape(Delivered(i))
            after  == FullTape(Delivered(i + 1))
            head   == Len(Delivered(i).left_hand_side) + 1
            moved  == Len(Delivered(i + 1).left_hand_side) + 1
        IN  /\ Len(after) \in { Len(before), Len(before) + 1 }
            /\ Len(after) = Len(before) + 1 => after[Len(after)] = machine.blank_symbol
            /\ \A k \in 1 .. Len(before) : k # head => after[k] = before[k]
            /\ after[head] = lookups[i].to[2]
            /\ moved \in { head - 1, head, head + 1 }
            /\ moved >= 1
            /\ moved <= Len(after)

\* A step wrote another symbol into the head cell and the tape grew.
Witness_C18 ==
    \E i \in 1 .. Len(yielded) - 1 :
        /\ Len(FullTape(Delivered(i + 1))) = Len(FullTape(Delivered(i))) + 1
        /\ lookups[i].to[2] # lookups[i].symbol
        /\ Len(yielded) >= i + 2
        /\ Len(Delivered(i + 2).left_hand_side) < Len(Delivered(i + 1).left_hand_side)

\* What accepts gives for the step limit n on a run that raises nothing
\* within n pulls.
AcceptsAt(n) ==
    LET pulled == Run(machine, input_, n)
    IN  AcceptsResult(pulled[Len(pulled)].action)

\* C19: when accepts is determined for a step limit n >= 1, it returns the
\* same for every larger step limit.
Theorem_C19 ==
    (AcceptsReturned /\ step_limit >= 1) =>
        \A n \in 1 .. step_limit :
            AcceptsAt(n) # "None" => accepts_result = AcceptsAt(n)

\* accepts was determined by the second observation and has returned the
\* same for a larger step limit.
Witness_C19 ==
    /\ AcceptsReturned
    /\ step_limit >= 3
    /\ AcceptsAt(1) = "None"
    /\ AcceptsAt(2) = "True"
    /\ accepts_result = "True"

\* Every direction of the table is 'L' or 'R'.
WellFormed(m) == \A k \in DOMAIN m.transitions : m.transitions[k][3] \in {"L", "R"}

\* C20: with all table directions 'L' or 'R' no step of run fails: the
\* assertion holds when it is reached, an empty right gives the blank, left
\* is popped only when it is non-empty, and every transition is followed by
\* the next observation.
Theorem_C20 ==
    WellFormed(machine) =>
        /\ gpc # "raised"
        /\ error # "AssertionError"
        /\ gpc \in {"suspended", "finished"} => Len(yielded) = Len(lookups) + 1
        /\ \A i \in 1 .. Len(lookups) :
               LET l == lookups[i]
               IN  /\ l.to[3] \in {"L", "R"}
                   /\ Len(yielded) >= i + 1
                   /\ (l.to[3] = "R" /\ l.right_hand_side = << >>) =>
                          /\ Delivered(i + 1).symbol = machine.blank_symbol
                          /\ Delivered(i + 1).right_hand_side = << >>
                   /\ (l.to[3] = "L" /\ l.left_hand_side = << >>) =>
                          /\ Delivered(i + 1).left_hand_side = << >>
                          /\ Delivered(i + 1).right_hand_side = l.right_hand_side
                   /\ Len(Delivered(i + 1).left_hand_side) + 1
                          \in { Len(l.left_hand_side), Len(l.left_hand_side) + 1,
                                Len(l.left_hand_side) + 2 }

\* A well formed machine has met the assertion on the leftmost cell, where
\* left is empty, and the next observation has been delivered.
Witness_C20 ==
    /\ WellFormed(machine)
    /\ gpc = "suspended"
    /\ \E i \in 1 .. Len(lookups) :
           /\ lookups[i].found
           /\ lookups[i].to[3] = "L"
           /\ lookups[i].left_hand_side = << >>
           /\ Len(yielded) = i + 1
====
